---- MODULE Spec2Model ----
(***************************************************************************)
(* handy_archives: TarFile / ZipFile helpers, is_tarfile and _normalize_nl *)
(* (src/.venv/Lib/site-packages/handy_archives/__init__.py).               *)
(*                                                                         *)
(* Paths and texts are sequences of characters.  In a path "/" stands for  *)
(* os.sep and "C:" for a drive prefix; in a text "CR" and "LF" are the     *)
(* carriage return and line feed and "xFF" is a byte that is no valid      *)
(* UTF-8.                                                                  *)
(***************************************************************************)
EXTENDS Integers, Sequences, FiniteSets, TLC

\* ---------------------------------------------------------------- bounds
\* Longest text handed to _normalize_nl.
MaxLen == 3
\* Number of successive _normalize_nl calls on one text.
MaxCalls == 2
\* Number of members write_file may add to one handle.
MaxWrites == 1
\* Number of per-entry write cursors that may be opened on one handle.
MaxEntries == 1
\* Longest source, in blocks, handed to is_tarfile.
MaxBlocks == 3
\* Number of member streams callers may hold open on one handle.
MaxStreams == 2

VARIABLES
    kind,            \* "tar" (TarFile) or "zip" (ZipFile): the class of the handle
    platform,        \* "posix" or "nt": decides os.path.splitdrive
    hasFilterError,  \* hasattr(tarfile, "FilterError")
    stdlibDefault,   \* the policy tarfile applies when filter=None
    mode,            \* "r" or "w": fixed at open time
    closed,          \* the handle was closed
    members,         \* the member listing, in archive order
    writing,         \* ZipFile._writing: a per-entry write cursor is open
    cursors,         \* number of write cursors open on the handle
    pending,         \* the member the open write cursor will add
    nWritten,        \* members write_file has added to this handle
    nOpened,         \* write cursors opened on this handle so far
    written,         \* the files extraction wrote to disk
    last,            \* the last call: its arguments and its outcome
    nlText,          \* the text _normalize_nl is applied to
    nlTrace,         \* the _normalize_nl calls made so far
    trip,            \* the write_file call a round trip reads back, if any
    streams,         \* number of member streams open on the handle
    held             \* number of streams callers got from extractfile and hold

vars == <<kind, platform, hasFilterError, stdlibDefault, mode, closed, members,
          writing, cursors, pending, nWritten, nOpened, written, last, nlText,
          nlTrace, trip, streams, held>>

archiveVars == <<kind, platform, hasFilterError, stdlibDefault, mode, closed,
                 members, writing, cursors, pending, nWritten, nOpened, written,
                 last, trip, streams, held>>

nlVars == <<nlText, nlTrace>>

streamVars == <<streams, held>>

\* ----------------------------------------------------- optional arguments
\* A Python Optional: None is <<>>, a value v is <<v>>.
None == <<>>

Some(v) == <<v>>

IsNone(o) == Len(o) = 0

\* ------------------------------------------------------ _normalize_nl
TextChars == {"a", "CR", "LF"}

RECURSIVE SeqsUpTo(_, _)
SeqsUpTo(S, n) ==
    IF n = 0 THEN {<<>>}
    ELSE LET shorter == SeqsUpTo(S, n - 1)
         IN  shorter \cup {Append(s, c) : s \in {t \in shorter : Len(t) = n - 1}, c \in S}

Texts == SeqsUpTo(TextChars, MaxLen)

\* str.replace("\r\n", "\n"): left to right, non-overlapping.
RECURSIVE ReplaceCRLF(_)
ReplaceCRLF(t) ==
    IF Len(t) = 0 THEN <<>>
    ELSE IF Len(t) >= 2 /\ t[1] = "CR" /\ t[2] = "LF"
         THEN <<"LF">> \o ReplaceCRLF(SubSeq(t, 3, Len(t)))
         ELSE <<t[1]>> \o ReplaceCRLF(Tail(t))

\* str.replace("\r", "\n").
ReplaceCR(t) == [i \in 1..Len(t) |-> IF t[i] = "CR" THEN "LF" ELSE t[i]]

\* A plausible slip: only the CRLF pairs are rewritten.
NormalizeNlNoLoneCR(text, enable) == IF enable THEN ReplaceCRLF(text) ELSE text

_normalize_nl(text, enable) ==
    IF enable THEN ReplaceCR(ReplaceCRLF(text)) ELSE text

HasCR(t) == \E i \in 1..Len(t) : t[i] = "CR"

\* ------------------------------------------------------------------ paths
Sep == "/"

Drive == "C:"

\* os.path.splitdrive(p)[1]: ntpath removes a leading drive, posixpath nothing.
splitdrive(plat, p) ==
    IF plat = "nt" /\ Len(p) >= 1 /\ p[1] = Drive THEN Tail(p) ELSE p

\* str.split("/"): the components between separators, empty ones included.
RECURSIVE SplitFrom(_, _, _)
SplitFrom(p, cur, acc) ==
    IF Len(p) = 0 THEN Append(acc, cur)
    ELSE IF p[1] = Sep THEN SplitFrom(Tail(p), <<>>, Append(acc, cur))
         ELSE SplitFrom(Tail(p), Append(cur, p[1]), acc)

Split(p) == SplitFrom(p, <<>>, <<>>)

\* "/".join(comps).
RECURSIVE Join(_)
Join(comps) ==
    IF Len(comps) = 0 THEN <<>>
    ELSE IF Len(comps) = 1 THEN comps[1]
         ELSE comps[1] \o <<Sep>> \o Join(Tail(comps))

Dot == <<".">>

DotDot == <<".", ".">>

\* posixpath.normpath: 1 or 2 leading separators.
InitialSlashes(p) ==
    IF Len(p) >= 1 /\ p[1] = Sep
    THEN IF Len(p) >= 2 /\ p[2] = Sep /\ ~(Len(p) >= 3 /\ p[3] = Sep) THEN 2 ELSE 1
    ELSE 0

\* The loop of posixpath.normpath over the components.
RECURSIVE NormComps(_, _, _)
NormComps(comps, initial, new) ==
    IF Len(comps) = 0 THEN new
    ELSE LET c == comps[1]
             rest == Tail(comps)
         IN  IF c = <<>> \/ c = Dot THEN NormComps(rest, initial, new)
             ELSE IF c # DotDot
                     \/ (initial = 0 /\ Len(new) = 0)
                     \/ (Len(new) > 0 /\ new[Len(new)] = DotDot)
                  THEN NormComps(rest, initial, Append(new, c))
                  ELSE IF Len(new) > 0
                       THEN NormComps(rest, initial, SubSeq(new, 1, Len(new) - 1))
                       ELSE NormComps(rest, initial, new)

\* os.path.normpath(p).
normpath(p) ==
    IF Len(p) = 0 THEN Dot
    ELSE LET initial == InitialSlashes(p)
             body == Join(NormComps(Split(p), initial, <<>>))
             res == [i \in 1..initial |-> Sep] \o body
         IN  IF Len(res) = 0 THEN Dot ELSE res

\* str.lstrip("/").
RECURSIVE lstrip(_)
lstrip(p) == IF Len(p) > 0 /\ p[1] = Sep THEN lstrip(Tail(p)) ELSE p

\* The working directory of the process.
Cwd == <<Sep>>

IsAbs(p) == Len(p) >= 1 /\ p[1] = Sep

\* os.path.abspath(p): normpath(join(cwd, p)).
abspath(p) == IF IsAbs(p) THEN normpath(p) ELSE normpath(Cwd \o p)

\* `while arcname[0] in (os.sep, os.altsep): arcname = arcname[1:]`.
\* arcname[0] of the empty string raises IndexError.
RECURSIVE StripLoop(_)
StripLoop(a) ==
    IF Len(a) = 0 THEN [ok |-> FALSE, name |-> <<>>]
    ELSE IF a[1] = Sep THEN StripLoop(Tail(a))
         ELSE [ok |-> TRUE, name |-> a]

\* The member name ZipFile.write_file computes from arcname.
ZipArcname(plat, arcname) == StripLoop(normpath(splitdrive(plat, arcname)))

\* The member name TarFile.gettarinfo computes from arcname:
\* splitdrive, replace(os.sep, "/"), lstrip("/").
TarArcname(plat, arcname) ==
    [ok |-> TRUE, name |-> lstrip(splitdrive(plat, arcname))]

\* ------------------------------------------------------------ file system
\* The path the archive was opened on (TarFile.name is its abspath).
ArchivePath == <<Sep, "z">>

\* What os.stat finds at a path: a regular file "/a", a directory "/d",
\* a FIFO "/p", the archive itself, and nothing anywhere else.
FileType(p) ==
    LET q == abspath(p)
    IN  IF q = <<Sep, "a">> \/ q = ArchivePath THEN "file"
        ELSE IF q = <<Sep, "d">> THEN "dir"
             ELSE IF q = <<Sep, "p">> THEN "fifo"
                  ELSE "missing"

\* os.path.isfile(filename).
isfile(p) == FileType(p) = "file"

\* os.stat(filename): st_mtime in seconds, st_mode, st_size, and the bytes
\* open(filename, "rb") yields.
Stat(p) ==
    IF abspath(p) = ArchivePath
    THEN [mtime |-> 3, mode |-> 33152, size |-> 1, data |-> <<"xFF">>]
    ELSE [mtime |-> 5, mode |-> 33188, size |-> 3, data |-> <<"a", "CR", "LF">>]

\* The source paths write_file is called with.
Filenames == {<<Sep, "a">>, <<"d">>, <<"m">>, <<"p">>, <<"z">>}

\* The arcname arguments write_file is called with.
Arcnames ==
    {None, Some(<<Sep>>), Some(<<Drive, Sep, "b">>), Some(<<".", Sep, "b">>)}

\* The mtime arguments write_file is called with (datetime.timestamp()).
Mtimes == {None, Some(7)}

\* ----------------------------------------------------------------- members
\* A member record and its content: the name, the type, the bytes, the
\* modification time, the size and permission bits the header carries, and
\* whether the stored bytes are undamaged.
Member(name, type, data, mtime) ==
    [name |-> name, type |-> type, data |-> data, mtime |-> mtime,
     size |-> Len(data), mode |-> 420, intact |-> TRUE]

FileMember == Member(<<"x">>, "file", <<"a", "CR", "LF", "CR">>, 1)

BadTextMember == Member(<<"y">>, "file", <<"xFF">>, 1)

DirMember == Member(<<"e">>, "dir", <<>>, 1)

FifoMember == Member(<<"q">>, "fifo", <<>>, 1)

EscapeMember == Member(<<".", ".", Sep, "o">>, "file", <<"a">>, 1)

AbsMember == Member(<<Sep, "o">>, "file", <<"a">>, 1)

\* A member whose stored bytes are damaged: reading its stream fails.
CorruptMember == [Member(<<"k">>, "file", <<"a">>, 1) EXCEPT !.intact = FALSE]

\* The archives a handle is opened on for reading: one with zero members and
\* ones with members of every kind the format stores.
Archives(k) ==
    {<<>>, <<FileMember, DirMember>>, <<BadTextMember>>}
        \cup (IF k = "tar" THEN {<<FileMember, FifoMember>>} ELSE {})

\* The archives a handle with streams in use is opened on: the same, and one
\* holding a damaged member.
StreamArchives(k) == Archives(k) \cup {<<FileMember, CorruptMember>>}

Names(ms) == {ms[i].name : i \in 1..Len(ms)}

\* The `member` arguments of extractfile / read_bytes / read_text: a name
\* (present or not) or a record of the listing.
ByName(n) == [isStr |-> TRUE, name |-> n, idx |-> 0]

ByRecord(ms, i) == [isStr |-> FALSE, name |-> ms[i].name, idx |-> i]

MemberArgs(ms) ==
    {ByName(n) : n \in Names(ms) \cup {<<"n">>}}
        \cup {ByRecord(ms, i) : i \in 1..Len(ms)}

NoArg == ByName(<<>>)

\* --------------------------------------------------------- the last call
\* What a call found: the handle's listing and write-cursor state, and
\* whether gettarinfo, if the call asked it, categorized the source.
Snapshot(ms, isWriting, n, pend, describe) ==
    [members |-> ms, writing |-> isWriting, cursors |-> n, pending |-> pend,
     describe |-> describe]

NoSnapshot == Snapshot(<<>>, FALSE, 0, None, TRUE)

\* A call: its arguments, the call before it, the state it found (recorded
\* for the calls that write) and its outcome.
Call(op, member, filename, arcname, mtime, filter, outcome, value, prevOp, before) ==
    [op |-> op, member |-> member, filename |-> filename, arcname |-> arcname,
     mtime |-> mtime, filter |-> filter, outcome |-> outcome, value |-> value,
     prevOp |-> prevOp, before |-> before]

\* Whether the call before was the finalizing of a write cursor.
PrevOp(c) == IF c.op = "finalize_entry" THEN "finalize_entry" ELSE "other"

NoCall == Call("open", NoArg, <<>>, None, None, None, "ok", <<>>, "other", NoSnapshot)

ReadCall(op, member, res) ==
    Call(op, member, <<>>, None, None, None, res.outcome, res.value, "other",
         NoSnapshot)

PlainCall(op, outcome) ==
    Call(op, NoArg, <<>>, None, None, None, outcome, <<>>, "other", NoSnapshot)

\* A call's result: "ok" with a value, or the exception raised.
Ok(v) == [outcome |-> "ok", value |-> v]

Raise(e) == [outcome |-> e, value |-> <<>>]

\* ------------------------------------------------------------- reading
\* TarFile._getmember(name): the last member of that name, or None (0).
\* getmembers() calls _check(): a closed handle raises OSError.
TarGetmember(ms, name) ==
    IF \E i \in 1..Len(ms) : ms[i].name = name
    THEN CHOOSE i \in 1..Len(ms) :
            /\ ms[i].name = name
            /\ \A j \in (i + 1)..Len(ms) : ms[j].name # name
    ELSE 0

\* tarfile.TarFile.extractfile(member): _check("r"), then a stream for a
\* regular file and None for the other supported types.
TarSuperExtractfile(ms, md, isClosed, i) ==
    IF isClosed \/ md # "r" THEN Raise("OSError")
    ELSE IF ms[i].type = "file" THEN Ok(Some(ms[i].data))
         ELSE Ok(None)

\* A plausible slip: the `is None` tests are dropped, so a miss comes back
\* as stdlib's null result instead of FileNotFoundError.
TarExtractfileNullOnMiss(ms, md, isClosed, member) ==
    LET i == IF member.isStr THEN TarGetmember(ms, member.name) ELSE member.idx
    IN  IF member.isStr /\ isClosed THEN Raise("OSError")
        ELSE IF i = 0 THEN Ok(<<>>)
             ELSE LET fd == TarSuperExtractfile(ms, md, isClosed, i)
                  IN  IF fd.outcome # "ok" THEN fd
                      ELSE IF IsNone(fd.value) THEN Ok(<<>>)
                           ELSE Ok(fd.value[1])

\* TarFile.extractfile(member): the stream (its bytes) or the error.
TarExtractfile(ms, md, isClosed, member) ==
    LET i == IF member.isStr THEN TarGetmember(ms, member.name) ELSE member.idx
    IN  IF member.isStr /\ isClosed THEN Raise("OSError")
        ELSE IF member.isStr /\ i = 0 THEN Raise("FileNotFoundError")
             ELSE LET fd == TarSuperExtractfile(ms, md, isClosed, i)
                  IN  IF fd.outcome # "ok" THEN fd
                      ELSE IF IsNone(fd.value) THEN Raise("FileNotFoundError")
                           ELSE Ok(fd.value[1])

\* ZipFile.NameToInfo.get(name): a dict, so the last member of that name.
ZipNameToInfo(ms, name) == TarGetmember(ms, name)

\* zipfile.ZipFile.open(info, "r"): fails on a closed handle and while a
\* write cursor is open; a directory entry opens as a stream of no bytes.
ZipOpenRead(ms, isClosed, isWriting, i) ==
    IF isClosed \/ isWriting THEN Raise("ValueError")
    ELSE Ok(ms[i].data)

\* ZipFile.extractfile(member): the stream (its bytes) or the error.
ZipExtractfile(ms, isClosed, isWriting, member) ==
    LET i == IF member.isStr THEN ZipNameToInfo(ms, member.name) ELSE member.idx
    IN  IF member.isStr /\ i = 0 THEN Raise("FileNotFoundError")
        ELSE ZipOpenRead(ms, isClosed, isWriting, i)

\* extractfile of the handle's class.
Extractfile(member) ==
    IF kind = "tar" THEN TarExtractfile(members, mode, closed, member)
    ELSE ZipExtractfile(members, closed, writing, member)

\* A plausible slip: read_bytes hands the bytes back with their line endings
\* normalized, as read_text does.
ReadBytesNormalized(member) ==
    LET fd == Extractfile(member)
    IN  IF fd.outcome # "ok" THEN fd ELSE Ok(_normalize_nl(fd.value, TRUE))

\* The error fd.read() raises on damaged bytes: tarfile.ReadError or
\* zipfile.BadZipFile.
ReadError == IF kind = "tar" THEN "ReadError" ELSE "BadZipFile"

\* read_bytes: `with self.extractfile(member) as fd: return fd.read()`.
ReadBytes(member) ==
    LET fd == Extractfile(member)
        i == IF member.isStr THEN TarGetmember(members, member.name)
             ELSE member.idx
    IN  IF fd.outcome # "ok" THEN fd
        ELSE IF ~members[i].intact THEN Raise(ReadError)
             ELSE Ok(fd.value)

\* A plausible slip: `fd = self.extractfile(member)`, `data = fd.read()`,
\* `fd.close()` without a with statement, so a failing read leaves the
\* stream open.
LeakOnReadError(n, opened, failed) ==
    IF opened /\ failed THEN n + 1 ELSE n

\* The streams open on the handle after read_bytes, n being open before it:
\* extractfile opens one unless it raises, and the with statement closes it
\* when fd.read() returns and when it raises.
StreamsAfterReadBytes(n, opened, failed) ==
    IF opened THEN (n + 1) - 1 ELSE n

\* bytes.decode("UTF-8").
ValidUtf8(data) == \A i \in 1..Len(data) : data[i] # "xFF"

\* read_text: read_bytes, decode, _normalize_nl.
ReadText(member, normalize_nl) ==
    LET b == ReadBytes(member)
    IN  IF b.outcome # "ok" THEN b
        ELSE IF ~ValidUtf8(b.value) THEN Raise("UnicodeDecodeError")
             ELSE Ok(_normalize_nl(b.value, normalize_nl))

\* ------------------------------------------------------------- writing
\* A write_file result: the outcome and the member appended, if any.
Wrote(m) == [outcome |-> "ok", add |-> Some(m)]

Skipped == [outcome |-> "ok", add |-> None]

Failed(e) == [outcome |-> e, add |-> None]

\* A plausible slip: the guard tests os.path.isdir instead of `not isfile`.
IsNotDir(p) == FileType(p) # "dir"

\* What the guard `if not os.path.isfile(filename)` lets through.
PassesFileGuard(p) == isfile(p)

\* tarfile.TarFile.gettarinfo(filename, arcname) of a file it can categorize:
\* the record built from os.lstat, the header keeping the permission bits
\* (mode & 0o7777).
gettarinfo(plat, filename, arc) ==
    LET st == Stat(filename)
    IN  [Member(TarArcname(plat, arc).name, "file", st.data, st.mtime)
            EXCEPT !.size = st.size, !.mode = st.mode % 4096]

\* A plausible slip: the assignment is lost and the record keeps the
\* modification time gettarinfo took from os.lstat.
KeepStatMtime(tarinfo, mtime) == tarinfo

\* `tarinfo.mtime = mtime.timestamp()`.
SetMtime(tarinfo, mtime) == [tarinfo EXCEPT !.mtime = mtime]

\* The modification time of a ZIP record is a DOS time: seconds count in twos.
DosTime(t) == 2 * (t \div 2)

\* zipfile.ZipInfo.from_file(filename, arcname): date_time from
\* os.stat(filename).st_mtime, external_attr (st_mode & 0xFFFF) << 16 (the
\* record keeps the 16 bits), file_size from st_size.
ZipInfoFromFile(name, filename) ==
    LET st == Stat(filename)
    IN  [Member(name, "file", st.data, DosTime(st.mtime))
            EXCEPT !.size = st.size, !.mode = st.mode % 65536]

\* `zipfile.ZipInfo(arcname, mtime.timetuple()[:6])`, then external_attr and
\* file_size from os.stat(filename).
ZipInfoWithMtime(name, filename, mtime) ==
    LET st == Stat(filename)
    IN  [Member(name, "file", st.data, DosTime(mtime))
            EXCEPT !.size = st.size, !.mode = st.mode % 65536]

\* TarFile.write_file(filename, arcname, mtime).  `describe` is whether
\* gettarinfo can categorize the file (it returns None when it cannot).
TarWriteFile(ms, md, isClosed, plat, filename, arcname, mtime, describe) ==
    LET arc == IF IsNone(arcname) THEN filename ELSE arcname[1]
    IN  IF ~PassesFileGuard(filename) THEN Failed("IsADirectoryError")
        \* self.add(...) / self._check("awx")
        ELSE IF isClosed \/ md = "r" THEN Failed("OSError")
        \* Skip if somebody tries to archive the archive...
        ELSE IF abspath(filename) = ArchivePath THEN Skipped
        ELSE IF IsNone(mtime)
             THEN \* tarfile.TarFile.add: `if tarinfo is None: return`
                  IF ~describe THEN Skipped
                  ELSE Wrote(gettarinfo(plat, filename, arc))
             ELSE \* `tarinfo.mtime = ...` comes before `if tarinfo is None`
                  IF ~describe THEN Failed("AttributeError")
                  ELSE Wrote(SetMtime(gettarinfo(plat, filename, arc), mtime[1]))

\* ZipFile.write_file(filename, arcname, mtime).
ZipWriteFile(ms, md, isClosed, isWriting, plat, filename, arcname, mtime) ==
    LET arc == IF IsNone(arcname) THEN filename ELSE arcname[1]
        zname == ZipArcname(plat, arc)
    IN  IF isWriting THEN Failed("ValueError")
        ELSE IF ~PassesFileGuard(filename) THEN Failed("IsADirectoryError")
        ELSE IF IsNone(mtime)
             THEN \* zipfile.ZipFile.write: closed check, ZipInfo.from_file,
                  \* then self.open(zinfo, "w")
                  IF isClosed THEN Failed("ValueError")
                  ELSE IF ~zname.ok THEN Failed("IndexError")
                  ELSE IF md = "r" THEN Failed("ValueError")
                  ELSE Wrote(ZipInfoFromFile(zname.name, filename))
             ELSE IF ~zname.ok THEN Failed("IndexError")
                  \* self.open(zinfo, "w")
                  ELSE IF isClosed \/ md = "r" THEN Failed("ValueError")
                  ELSE Wrote(ZipInfoWithMtime(zname.name, filename, mtime[1]))

\* ------------------------------------------------------------ is_tarfile
\* The bytes of a source, in 512-byte blocks: "hdr" a valid tar header, "data"
\* a block of member data, "zero" an end-of-archive block, "pk" the start of a
\* zip archive, "junk" random bytes, "part" a block cut short.
Blocks == {"hdr", "data", "zero", "pk", "junk", "part"}

\* What is_tarfile is given: a path or a file-like object over some bytes, a
\* path with no readable file behind it, or a file-like object whose read fails.
ProbeSources ==
    [how : {"path", "fileobj"}, io : {"ok"}, bytes : SeqsUpTo(Blocks, MaxBlocks)]
        \cup [how : {"path"}, io : {"missing", "directory", "unreadable"},
              bytes : {<<>>}]
        \cup [how : {"fileobj"}, io : {"ioerror"}, bytes : {<<>>}]

\* TarFile.open(name) / TarFile.open(fileobj=name) reads the first header:
\* success, a tarfile.TarError (ReadError) when the bytes start no tar
\* archive, or the OSError of the underlying open() or read().
OpenStep(src) ==
    IF src.io # "ok" THEN "OSError"
    ELSE IF Len(src.bytes) = 0 THEN "TarError"
         ELSE IF src.bytes[1] \in {"hdr", "zero"} THEN "ok"
              ELSE "TarError"

\* is_tarfile(name): only tarfile.TarError is caught.
is_tarfile(src) ==
    LET o == OpenStep(src)
    IN  IF o = "ok" THEN Ok(<<TRUE>>)
        ELSE IF o = "TarError" THEN Ok(<<FALSE>>)
             ELSE Raise(o)

\* ------------------------------------------------- the handle: operations
\* TarFile.open(path, mode) / ZipFile(path, mode): a fresh archive for
\* writing, or an existing one for reading.
Init ==
    /\ kind \in {"tar", "zip"}
    /\ platform \in {"posix", "nt"}
    /\ hasFilterError = TRUE
    /\ stdlibDefault = "data_filter"
    /\ mode \in {"r", "w"}
    /\ closed = FALSE
    /\ members \in (IF mode = "w" THEN {<<>>} ELSE Archives(kind))
    /\ writing = FALSE
    /\ cursors = 0
    /\ pending = None
    /\ nWritten = 0
    /\ nOpened = 0
    /\ written = {}
    /\ last = NoCall
    /\ trip = None
    /\ streams = 0
    /\ held = 0
    /\ nlText = <<>>
    /\ nlTrace = <<>>

handleVars == <<kind, platform, hasFilterError, stdlibDefault, mode>>

countVars == <<nWritten, nOpened>>

\* extractfile(member), the caller closing the stream it gets before the
\* next call.
ExtractfileCall ==
    /\ \E m \in MemberArgs(members) :
            last' = ReadCall("extractfile", m, Extractfile(m))
    /\ UNCHANGED <<handleVars, countVars, closed, members, writing, cursors,
                   pending, written, nlVars, trip, streamVars>>

\* The streams read_bytes(m) leaves open on the handle.
StreamsAfter(m) ==
    StreamsAfterReadBytes(streams, Extractfile(m).outcome = "ok",
                          Extractfile(m).outcome = "ok"
                              /\ ReadBytes(m).outcome # "ok")

\* read_bytes(m): the call record and the open streams after it.
ReadBytesOf(m) ==
    /\ last' = ReadCall("read_bytes", m, ReadBytes(m))
    /\ streams' = StreamsAfter(m)

\* read_bytes(member)
ReadBytesCall ==
    /\ \E m \in MemberArgs(members) : ReadBytesOf(m)
    /\ UNCHANGED <<handleVars, countVars, closed, members, writing, cursors,
                   pending, written, nlVars, trip, held>>

\* read_text(member, normalize_nl=...)
ReadTextCall ==
    /\ \E m \in MemberArgs(members), nl \in BOOLEAN :
            /\ last' = ReadCall("read_text", m, ReadText(m, nl))
            /\ streams' = StreamsAfter(m)
    /\ UNCHANGED <<handleVars, countVars, closed, members, writing, cursors,
                   pending, written, nlVars, trip, held>>

\* Whether TarFile.write_file(filename) gets as far as gettarinfo: the
\* source passed the isfile guard and _check, and is not the archive itself.
AsksGettarinfo(filename) ==
    /\ kind = "tar"
    /\ isfile(filename)
    /\ ~closed /\ mode # "r"
    /\ abspath(filename) # ArchivePath

\* write_file(f, arc, mt): the listing and the call record after it.
WriteFileOf(f, arc, mt, describe) ==
    LET res == IF kind = "tar"
               THEN TarWriteFile(members, mode, closed, platform,
                                 f, arc, mt, describe)
               ELSE ZipWriteFile(members, mode, closed, writing, platform,
                                 f, arc, mt)
    IN  /\ members' = IF IsNone(res.add) THEN members
                      ELSE Append(members, res.add[1])
        /\ nWritten' = IF IsNone(res.add) THEN nWritten ELSE nWritten + 1
        /\ last' = Call("write_file", NoArg, f, arc, mt, None,
                        res.outcome, <<>>, PrevOp(last),
                        Snapshot(members, writing, cursors, pending, describe))

\* write_file(filename, arcname, mtime)
WriteFileCall ==
    /\ nWritten < MaxWrites
    /\ \E f \in Filenames, arc \in Arcnames, mt \in Mtimes :
       \E describe \in (IF AsksGettarinfo(f) THEN BOOLEAN ELSE {TRUE}) :
          WriteFileOf(f, arc, mt, describe)
    /\ UNCHANGED <<handleVars, nOpened, closed, writing, cursors, pending,
                   written, nlVars, trip, streamVars>>

\* zipfile.ZipFile.open(name, "w"): the caller opens a per-entry write cursor.
OpenEntry ==
    /\ kind = "zip"
    /\ nOpened < MaxEntries
    /\ IF closed \/ writing \/ mode = "r"
       THEN /\ last' = PlainCall("open_entry", "ValueError")
            /\ UNCHANGED <<writing, cursors, pending, nOpened>>
       ELSE /\ writing' = TRUE
            /\ cursors' = cursors + 1
            /\ nOpened' = nOpened + 1
            /\ pending' = Some(Member(<<"c">>, "file", <<"a">>, 9))
            /\ last' = PlainCall("open_entry", "ok")
    /\ UNCHANGED <<handleVars, nWritten, closed, members, written, nlVars, trip, streamVars>>

\* Closing the write cursor finalizes the entry: it joins the listing.
FinalizeEntry ==
    /\ kind = "zip"
    /\ writing
    /\ members' = Append(members, pending[1])
    /\ writing' = FALSE
    /\ cursors' = cursors - 1
    /\ pending' = None
    /\ last' = PlainCall("finalize_entry", "ok")
    /\ UNCHANGED <<handleVars, countVars, closed, written, nlVars, trip, streamVars>>

\* close(): zipfile refuses to close while a write cursor is open.
Close ==
    /\ ~closed
    /\ IF kind = "zip" /\ writing
       THEN /\ last' = PlainCall("close", "ValueError")
            /\ UNCHANGED closed
       ELSE /\ closed' = TRUE
            /\ last' = PlainCall("close", "ok")
    /\ UNCHANGED <<handleVars, countVars, members, writing, cursors, pending,
                   written, nlVars, trip, streamVars>>

Next ==
    \/ ExtractfileCall
    \/ ReadBytesCall
    \/ ReadTextCall
    \/ WriteFileCall
    \/ OpenEntry
    \/ FinalizeEntry
    \/ Close

Spec == Init /\ [][Next]_vars

\* ------------------------------------------- the handle: write, then read
\* A fresh archive is opened for writing, one file is written with
\* write_file(filename), the handle is closed, the archive is opened again
\* for reading and the member is read back by name.
InitTrip == Init /\ mode = "w"

\* The name write_file(filename) stores the file under when arcname is omitted.
StoredName(filename) ==
    IF kind = "tar" THEN TarArcname(platform, filename).name
    ELSE ZipArcname(platform, filename).name

\* write_file(filename, mtime=...) on the fresh handle, arcname omitted.
TripWriteFile ==
    /\ IsNone(trip)
    /\ ~closed /\ mode = "w"
    /\ nWritten < MaxWrites
    /\ \E f \in Filenames, mt \in Mtimes :
       \E describe \in (IF AsksGettarinfo(f) THEN BOOLEAN ELSE {TRUE}) :
          /\ WriteFileOf(f, None, mt, describe)
          /\ trip' = Some([filename |-> f, mtime |-> mt, describe |-> describe])
    /\ UNCHANGED <<handleVars, nOpened, closed, writing, cursors, pending,
                   written, nlVars, streamVars>>

\* TarFile.open(path) / ZipFile(path) on the archive the closed handle wrote:
\* the listing is what was written, in archive order.
Reopen ==
    /\ closed /\ mode = "w"
    /\ mode' = "r"
    /\ closed' = FALSE
    /\ last' = PlainCall("reopen", "ok")
    /\ UNCHANGED <<kind, platform, hasFilterError, stdlibDefault, countVars,
                   members, writing, cursors, pending, written, nlVars, trip, streamVars>>

\* read_bytes(name), the name being the one write_file(filename) stores under.
TripReadBytes ==
    /\ ~IsNone(trip)
    /\ ReadBytesOf(ByName(StoredName(trip[1].filename)))
    /\ UNCHANGED <<handleVars, countVars, closed, members, writing, cursors,
                   pending, written, nlVars, trip, held>>

NextTrip ==
    \/ TripWriteFile
    \/ Close
    \/ Reopen
    \/ TripReadBytes

SpecTrip == InitTrip /\ [][NextTrip]_vars

\* ------------------------------------------- the handle: member streams
\* TarFile.open(path, mode) / ZipFile(path, mode) on an existing archive, for
\* reading or for appending.
InitStreams ==
    /\ kind \in {"tar", "zip"}
    /\ platform = "posix"
    /\ hasFilterError = TRUE
    /\ stdlibDefault = "data_filter"
    /\ mode \in {"r", "a"}
    /\ closed = FALSE
    /\ members \in StreamArchives(kind)
    /\ writing = FALSE
    /\ cursors = 0
    /\ pending = None
    /\ nWritten = 0
    /\ nOpened = 0
    /\ written = {}
    /\ last = NoCall
    /\ trip = None
    /\ streams = 0
    /\ held = 0
    /\ nlText = <<>>
    /\ nlTrace = <<>>

\* extractfile(member), the caller keeping the stream it gets.
OpenStream ==
    /\ held < MaxStreams
    /\ \E m \in MemberArgs(members) :
          LET fd == Extractfile(m)
          IN  /\ last' = ReadCall("extractfile", m, fd)
              /\ streams' = IF fd.outcome = "ok" THEN streams + 1 ELSE streams
              /\ held' = IF fd.outcome = "ok" THEN held + 1 ELSE held
    /\ UNCHANGED <<handleVars, countVars, closed, members, writing, cursors,
                   pending, written, nlVars, trip>>

\* The caller closes a stream it holds.
CloseStream ==
    /\ held > 0
    /\ streams' = streams - 1
    /\ held' = held - 1
    /\ last' = PlainCall("close_stream", "ok")
    /\ UNCHANGED <<handleVars, countVars, closed, members, writing, cursors,
                   pending, written, nlVars, trip>>

NextStreams ==
    \/ OpenStream
    \/ CloseStream
    \/ ReadBytesCall
    \/ ReadTextCall
    \/ OpenEntry
    \/ FinalizeEntry

SpecStreams == InitStreams /\ [][NextStreams]_vars

\* ----------------------------------------------------- is_tarfile: calls
InitProbe ==
    /\ kind = "tar"
    /\ platform = "posix"
    /\ hasFilterError = TRUE
    /\ stdlibDefault = "data_filter"
    /\ mode = "r"
    /\ closed = FALSE
    /\ members = <<>>
    /\ writing = FALSE
    /\ cursors = 0
    /\ pending = None
    /\ nWritten = 0
    /\ nOpened = 0
    /\ written = {}
    /\ last = NoCall
    /\ trip = None
    /\ streams = 0
    /\ held = 0
    /\ nlText = <<>>
    /\ nlTrace = <<>>

\* is_tarfile(name)
IsTarfileCall ==
    /\ \E src \in ProbeSources :
          LET res == is_tarfile(src)
          IN  last' = Call("is_tarfile", NoArg, src,
                           None, None, None, res.outcome, res.value, "other",
                           NoSnapshot)
    /\ UNCHANGED <<handleVars, countVars, closed, members, writing, cursors,
                   pending, written, nlVars, trip, streamVars>>

NextProbe == IsTarfileCall

SpecProbe == InitProbe /\ [][NextProbe]_vars

\* ------------------------------------------------------------ extraction
\* Where os.path.join(path, name) lands: outside the destination when the
\* name is absolute or its normal form starts with a ".." segment.
Escapes(name) ==
    \/ IsAbs(name)
    \/ LET comps == Split(normpath(name))
       IN  Len(comps) > 0 /\ comps[1] = DotDot

Accept(m) == [ok |-> TRUE, member |-> m]

Reject == [ok |-> FALSE, member |-> FileMember]

\* tarfile.tar_filter / tarfile.data_filter as imported when tarfile has
\* FilterError: leading separators are stripped, a name that still leaves the
\* destination is refused, and data_filter refuses special files as well.
StdlibFilter(policy, m) ==
    LET stripped == [m EXCEPT !.name = lstrip(m.name)]
    IN  IF policy = "fully_trusted_filter" THEN Accept(m)
        ELSE IF Escapes(stripped.name) THEN Reject
             ELSE IF policy = "data_filter" /\ m.type = "fifo" THEN Reject
                  ELSE Accept(stripped)

\* fully_trusted_filter, tar_filter, data_filter of this module: tarfile's
\* own when it has FilterError, else functions that return the member.
ModuleFilter(hasFE, policy, m) ==
    IF hasFE THEN StdlibFilter(policy, m) ELSE Accept(m)

\* The filter arguments extract and extractall are called with.
Filters ==
    {None, Some("data_filter"), Some("tar_filter"), Some("fully_trusted_filter")}

\* The policy an extraction call applies: the filter argument is handed to
\* tarfile when it has FilterError (None there means tarfile's default) and
\* is dropped otherwise.
AppliedPolicy(hasFE, dflt, filter) ==
    IF hasFE THEN (IF IsNone(filter) THEN dflt ELSE filter[1]) ELSE "none"

\* What one member's extraction does under the applied policy.
ExtractOne(hasFE, policy, m) ==
    IF policy = "none" THEN Accept(m) ELSE ModuleFilter(hasFE, policy, m)

\* A file on disk after extraction.
Written(m, policy) ==
    [name |-> m.name, outside |-> Escapes(m.name), policy |-> policy]

\* TarFile.extract(member, path, filter=filter): the files written and the
\* outcome (a missing name is tarfile's KeyError).
TarExtract(ms, hasFE, dflt, member, filter) ==
    LET i == IF member.isStr THEN TarGetmember(ms, member.name) ELSE member.idx
        policy == AppliedPolicy(hasFE, dflt, filter)
    IN  IF i = 0 THEN [outcome |-> "KeyError", files |-> {}]
        ELSE LET r == ExtractOne(hasFE, policy, ms[i])
             IN  IF r.ok THEN [outcome |-> "ok", files |-> {Written(r.member, policy)}]
                 ELSE [outcome |-> "FilterError", files |-> {}]

\* TarFile.extractall(path, filter=filter): members in archive order, stopping
\* at the first one the filter refuses.
RECURSIVE ExtractFrom(_, _, _, _, _)
ExtractFrom(ms, i, hasFE, policy, files) ==
    IF i > Len(ms) THEN [outcome |-> "ok", files |-> files]
    ELSE LET r == ExtractOne(hasFE, policy, ms[i])
         IN  IF r.ok
             THEN ExtractFrom(ms, i + 1, hasFE, policy,
                              files \cup {Written(r.member, policy)})
             ELSE [outcome |-> "FilterError", files |-> files]

TarExtractall(ms, hasFE, dflt, filter) ==
    ExtractFrom(ms, 1, hasFE, AppliedPolicy(hasFE, dflt, filter), {})

\* The tar archives extraction is run on.
ExtractArchives ==
    {<<FileMember>>, <<EscapeMember>>, <<AbsMember>>, <<FifoMember>>,
     <<FileMember, EscapeMember>>, <<DirMember, AbsMember>>}

\* A tar archive open for reading, on a Python whose tarfile has FilterError
\* (its default policy is fully_trusted up to 3.13 and data from 3.14) or has not.
InitExtract ==
    /\ kind = "tar"
    /\ platform = "posix"
    /\ hasFilterError \in BOOLEAN
    /\ stdlibDefault \in (IF hasFilterError
                          THEN {"fully_trusted_filter", "data_filter"}
                          ELSE {"none"})
    /\ mode = "r"
    /\ closed = FALSE
    /\ members \in ExtractArchives
    /\ writing = FALSE
    /\ cursors = 0
    /\ pending = None
    /\ nWritten = 0
    /\ nOpened = 0
    /\ written = {}
    /\ last = NoCall
    /\ trip = None
    /\ streams = 0
    /\ held = 0
    /\ nlText = <<>>
    /\ nlTrace = <<>>

\* extract(member, path, filter=...)
ExtractCall ==
    /\ \E m \in MemberArgs(members), f \in Filters :
          LET res == TarExtract(members, hasFilterError, stdlibDefault, m, f)
          IN  /\ written' = written \cup res.files
              /\ last' = Call("extract", m, <<>>, None, None, f, res.outcome,
                              res.files, "other", NoSnapshot)
    /\ UNCHANGED <<handleVars, countVars, closed, members, writing, cursors,
                   pending, nlVars, trip, streamVars>>

\* extractall(path, filter=...)
ExtractallCall ==
    /\ \E f \in Filters :
          LET res == TarExtractall(members, hasFilterError, stdlibDefault, f)
          IN  /\ written' = written \cup res.files
              /\ last' = Call("extractall", NoArg, <<>>, None, None, f,
                              res.outcome, res.files, "other", NoSnapshot)
    /\ UNCHANGED <<handleVars, countVars, closed, members, writing, cursors,
                   pending, nlVars, trip, streamVars>>

NextExtract == ExtractCall \/ ExtractallCall

SpecExtract == InitExtract /\ [][NextExtract]_vars

\* ------------------------------------------------- _normalize_nl: calls
InitNl ==
    /\ kind = "tar"
    /\ platform = "posix"
    /\ hasFilterError = TRUE
    /\ stdlibDefault = "data_filter"
    /\ mode = "r"
    /\ closed = FALSE
    /\ members = <<>>
    /\ writing = FALSE
    /\ cursors = 0
    /\ pending = None
    /\ nWritten = 0
    /\ nOpened = 0
    /\ written = {}
    /\ last = NoCall
    /\ trip = None
    /\ streams = 0
    /\ held = 0
    /\ nlText \in Texts
    /\ nlTrace = <<>>

\* text = _normalize_nl(text, enable)
NormalizeNlCall ==
    /\ Len(nlTrace) < MaxCalls
    /\ \E enable \in BOOLEAN :
          LET out == _normalize_nl(nlText, enable)
          IN  /\ nlTrace' = Append(nlTrace,
                                   [in |-> nlText, enable |-> enable, out |-> out])
              /\ nlText' = out
    /\ UNCHANGED archiveVars

NextNl == NormalizeNlCall

SpecNl == InitNl /\ [][NextNl]_vars

\* ================================================================ claims
ReadOps == {"extractfile", "read_bytes", "read_text"}

\* The listing index a `member` argument resolves to (0: no such member).
Resolved(member) ==
    IF member.isStr THEN TarGetmember(members, member.name) ELSE member.idx

\* The state the last call found is the state now.
Untouched ==
    last.before = Snapshot(members, writing, cursors, pending,
                           last.before.describe)

\* The last call was a write_file that added one member to the listing.
AddedMember ==
    /\ last.op = "write_file"
    /\ Len(members) = Len(last.before.members) + 1

\* The handle is open for writing and no write cursor was open at the call.
Writable == ~closed /\ mode # "r" /\ ~last.before.writing

\* C1: on an open handle of either kind, extractfile, read_bytes and
\* read_text of a name that equals no member name fail with
\* FileNotFoundError, whether the archive has zero members or only members
\* of other names; none returns a success value.
C1_MissingMemberNotFound ==
    (/\ last.op \in ReadOps
     /\ ~closed
     /\ last.member.isStr
     /\ last.member.name \notin Names(members))
        => last.outcome = "FileNotFoundError"

\* C1 witness: read_bytes of an absent name on a tar archive that holds
\* other members raised FileNotFoundError.
C1_Witness ==
    /\ last.op = "read_bytes"
    /\ kind = "tar"
    /\ Len(members) > 0
    /\ last.member.isStr
    /\ last.member.name \notin Names(members)
    /\ last.outcome = "FileNotFoundError"

\* C2: extractfile of a member that exists but has no content stream (a
\* directory or special file), given by name or as a record, fails with
\* FileNotFoundError for both archive kinds.
C2_NoStreamNotFound ==
    (/\ last.op = "extractfile"
     /\ ~closed /\ mode = "r" /\ ~writing
     /\ Resolved(last.member) # 0
     /\ members[Resolved(last.member)].type \in {"dir", "fifo"})
        => last.outcome = "FileNotFoundError"

\* C3: is_tarfile never raises: it returns true exactly when the open step
\* succeeds and false otherwise, whatever the source and the open step's error.
C3_ProbeTotal ==
    last.op = "is_tarfile"
        => /\ last.outcome = "ok"
           /\ last.value = <<OpenStep(last.filename) = "ok">>

\* C6 as stated: write_file of a source that is no regular file fails with
\* IsADirectoryError for every arcname and mtime, and leaves the listing and
\* the write-cursor state as they were.
C6_Original ==
    (last.op = "write_file" /\ ~isfile(last.filename))
        => (last.outcome = "IsADirectoryError" /\ Untouched)

\* C6 amended: write_file of a source that is no regular file fails with
\* IsADirectoryError, except on a ZipFile with a write cursor open, where it
\* fails with ValueError; either way the listing and the write-cursor state
\* are as they were.
C6_InvalidSource ==
    (last.op = "write_file" /\ ~isfile(last.filename))
        => /\ last.outcome = (IF kind = "zip" /\ last.before.writing
                              THEN "ValueError" ELSE "IsADirectoryError")
           /\ Untouched

\* C6 witness: a ZipFile with a write cursor open refused a directory source
\* with ValueError.
C6_Witness ==
    /\ last.op = "write_file"
    /\ kind = "zip"
    /\ writing
    /\ FileType(last.filename) = "dir"
    /\ last.outcome = "ValueError"
    /\ Untouched

\* C7: on a ZipFile, write_file while a write cursor is open fails with
\* ValueError, adds no member and leaves the cursor alone; right after the
\* cursor is finalized a write_file of a regular file succeeds and adds
\* exactly one member; never are two write cursors open.
C7_WriteConflict ==
    /\ cursors <= 1
    /\ (last.op = "write_file" /\ kind = "zip" /\ last.before.writing)
          => (last.outcome = "ValueError" /\ Untouched)
    /\ (/\ last.op = "write_file" /\ kind = "zip"
        /\ last.prevOp = "finalize_entry"
        /\ Writable
        /\ isfile(last.filename))
          => (last.outcome = "ok" /\ AddedMember)

\* C8: write_file of the archive's own backing file, on a handle open for
\* writing, writes nothing and raises nothing, for both kinds and with mtime
\* omitted or supplied.
C8_SelfArchiving ==
    (/\ last.op = "write_file"
     /\ Writable
     /\ abspath(last.filename) = ArchivePath)
        => (last.outcome = "ok" /\ Untouched)

\* The path a write_file call takes the member name from.
ArcSource(c) == IF IsNone(c.arcname) THEN c.filename ELSE c.arcname[1]

\* C9: computing the member name never fails, and every member write_file
\* adds is stored under a non-empty relative name: drive prefix removed,
\* path-normalized, no leading separator.
C9_ArcnameNormalized ==
    /\ last.op = "write_file" => last.outcome # "IndexError"
    /\ AddedMember =>
          LET name == members[Len(members)].name
          IN  /\ Len(name) > 0
              /\ name[1] # Sep
              /\ ~(platform = "nt" /\ name[1] = Drive)
              /\ name = normpath(name)

\* C4: extract and extractall called without a filter apply the data-only
\* policy to what they extract; tar-compatible or fully-trusted is applied
\* only when the caller passes it.
C4_DefaultDataOnly ==
    last.op \in {"extract", "extractall"} =>
        \A w \in last.value :
            /\ IsNone(last.filter) => w.policy = "data_filter"
            /\ w.policy \in {"tar_filter", "fully_trusted_filter"}
                  => last.filter = Some(w.policy)

\* The members the last extraction call was asked to extract.
Asked ==
    IF last.op = "extractall" THEN {members[i] : i \in 1..Len(members)}
    ELSE IF Resolved(last.member) = 0 THEN {}
         ELSE {members[Resolved(last.member)]}

\* C5: extracting a member whose name escapes the destination is refused
\* with FilterError under data_filter and tar_filter, and nothing is written
\* outside the destination; under fully_trusted_filter the member is written
\* unchanged, outside the destination.
C5_EscapeRejected ==
    (/\ last.op \in {"extract", "extractall"}
     /\ ~IsNone(last.filter)
     /\ \E m \in Asked : Escapes(m.name))
        => IF last.filter[1] \in {"data_filter", "tar_filter"}
           THEN /\ last.outcome = "FilterError"
                /\ \A w \in last.value : ~w.outside
           ELSE /\ last.outcome = "ok"
                /\ \A m \in Asked :
                      Escapes(m.name) =>
                          \E w \in last.value : w.name = m.name /\ w.outside

\* C10: _normalize_nl with the flag off returns the text unchanged; with the
\* flag on it leaves a text without carriage returns unchanged, and applied
\* to its own result it changes nothing.
C10_NormalizeIdempotent ==
    \A i \in 1..Len(nlTrace) :
        LET c == nlTrace[i]
        IN  /\ ~c.enable => c.out = c.in
            /\ (c.enable /\ ~HasCR(c.in)) => c.out = c.in
            /\ (c.enable /\ i > 1 /\ nlTrace[i - 1].enable)
                  => c.out = nlTrace[i - 1].out

\* C10 witness: a text with a lone carriage return and a CRLF pair was
\* normalized twice; the first call changed it and the second did not.
C10_Witness ==
    /\ Len(nlTrace) >= 2
    /\ nlTrace[1].enable /\ nlTrace[2].enable
    /\ nlTrace[1].in = <<"CR", "CR", "LF">>
    /\ nlTrace[1].out = <<"LF", "LF">>
    /\ nlTrace[2].in = nlTrace[1].out
    /\ nlTrace[2].out = nlTrace[1].out

\* The round trip is done: the file of `trip` was written to the fresh
\* archive, the archive was closed and opened again for reading, and
\* read_bytes was called with the name the file is stored under.
TripDone ==
    /\ ~IsNone(trip)
    /\ last.op = "read_bytes"
    /\ ~closed /\ mode = "r"
    /\ last.member = ByName(StoredName(trip[1].filename))

\* C11 as stated: for every regular file, write_file into a fresh archive,
\* close, reopen for reading and read_bytes of the stored name returns the
\* file's content, byte for byte, for both kinds and with mtime omitted or
\* supplied.
C11_Original ==
    (/\ TripDone
     /\ isfile(trip[1].filename)
     /\ trip[1].describe)
        => /\ last.outcome = "ok"
           /\ last.value = Stat(trip[1].filename).data

\* C11 amended: the same for every regular file other than the archive's own
\* backing file.
C11_RoundTrip ==
    (/\ TripDone
     /\ isfile(trip[1].filename)
     /\ trip[1].describe
     /\ abspath(trip[1].filename) # ArchivePath)
        => /\ last.outcome = "ok"
           /\ last.value = Stat(trip[1].filename).data

\* C11 witness: a file holding a CR LF pair was written to a ZipFile under a
\* supplied mtime and read back from the reopened archive, byte for byte.
C11_Witness ==
    /\ TripDone
    /\ kind = "zip"
    /\ trip[1].filename = <<Sep, "a">>
    /\ ~IsNone(trip[1].mtime)
    /\ last.outcome = "ok"
    /\ last.value = <<"a", "CR", "LF">>

\* C12: the record write_file stores carries the supplied mtime, to the
\* precision of the format (whole seconds in a tar header, two seconds in a
\* ZIP record), and not the source's st_mtime; with mtime omitted it carries
\* the source's st_mtime.  Name, size and mode come from arcname and os.stat
\* alone, so they are the same with and without an mtime.
C12_MtimeOverride ==
    AddedMember =>
        LET m == members[Len(members)]
            st == Stat(last.filename)
            t == IF IsNone(last.mtime) THEN st.mtime ELSE last.mtime[1]
        IN  /\ m.mtime <= t
            /\ t - m.mtime < (IF kind = "zip" THEN 2 ELSE 1)
            /\ m.name = (IF kind = "tar"
                         THEN TarArcname(platform, ArcSource(last)).name
                         ELSE ZipArcname(platform, ArcSource(last)).name)
            /\ m.size = st.size
            /\ m.mode = st.mode % (IF kind = "tar" THEN 4096 ELSE 65536)

\* C12 witness: a TarFile stored a file under a supplied mtime that differs
\* from the source's st_mtime, and the record carries the supplied one.
C12_Witness ==
    /\ AddedMember
    /\ kind = "tar"
    /\ ~IsNone(last.mtime)
    /\ last.mtime[1] # Stat(last.filename).mtime
    /\ members[Len(members)].mtime = last.mtime[1]
    /\ members[Len(members)].size = 3
    /\ members[Len(members)].mode = 420

\* C14: read_bytes leaves no stream of its own open, whether it returns or
\* fails: every stream open on the handle is one a caller got from
\* extractfile and still holds.  A write cursor is refused only on a closed
\* or read-only handle or while another cursor is open, whatever streams
\* are open.
C14_ReadBytesReleases ==
    /\ streams = held
    /\ (last.op = "open_entry" /\ last.outcome # "ok")
          => (closed \/ mode = "r" \/ writing)

\* C14 witness: read_bytes failed on a damaged member while the caller held
\* a stream from extractfile; the caller's stream is the only one open.
C14_Witness ==
    /\ last.op = "read_bytes"
    /\ last.outcome = ReadError
    /\ held = 1
    /\ streams = 1

\* C13: on a TarFile open for writing, a write_file whose gettarinfo step
\* yields no member record returns normally and appends nothing, whether
\* mtime is omitted or supplied.
C13_UndescribedIsNoOp ==
    (/\ last.op = "write_file"
     /\ kind = "tar"
     /\ ~last.before.describe)
        => (last.outcome = "ok" /\ Untouched)

====
